---- MODULE Spec2Model ----
(***************************************************************************)
(* Picking Ticket Barcode Generator (src/app.py).                          *)
(*                                                                         *)
(* The program is a Streamlit script: every user interaction (upload,      *)
(* checkbox, button) re-runs the whole script top to bottom.  One action   *)
(* of the model is one interaction followed by the complete script run.    *)
(* The three functions of the script are operators computed as the code    *)
(* computes them.                                                          *)
(*                                                                         *)
(* Text is a sequence of characters.  The character "sup2" stands for      *)
(* U+00B2 SUPERSCRIPT TWO, a character for which Python's str.isdigit()    *)
(* is True and str.isdecimal() is False.  Coordinates are points; the      *)
(* model uses whole points.                                                *)
(***************************************************************************)
EXTENDS Integers, Sequences, FiniteSets

\* ------------------------------------------------------------------ bounds

\* Longest stripped text drawn for a single-span document.
MaxTextLen == 10

\* Most pages of a multi-span document.
MaxPages == 3

\* ------------------------------------------------- characters and strings

\* An absent value, and a present one.
None == <<>>
Some(v) == <<v>>

AsciiDigits == {"0", "1", "2", "3", "4", "5", "6", "7", "8", "9"}

\* Characters the documents are written in.
Chars == {"3", "1", "a", " ", "sup2"}

\* Python str.isspace() on one character (what str.strip() removes).
IsSpaceChar(c) == c = " "

\* Python str.isdigit() on one character: decimal digits and the
\* compatibility digits (superscripts and the like).
IsDigitChar(c) == c \in AsciiDigits \cup {"sup2"}

\* Whether the character is in Code 128's character set (ASCII).
IsAsciiChar(c) == c # "sup2"

RECURSIVE lstrip(_)
lstrip(t) ==
    IF t = <<>> THEN <<>>
    ELSE IF IsSpaceChar(Head(t)) THEN lstrip(Tail(t)) ELSE t

RECURSIVE rstrip(_)
rstrip(t) ==
    IF t = <<>> THEN <<>>
    ELSE IF IsSpaceChar(t[Len(t)]) THEN rstrip(SubSeq(t, 1, Len(t) - 1)) ELSE t

\* span["text"].strip()
strip(t) == rstrip(lstrip(t))

\* t.isdigit(): non-empty and every character a digit
isdigit(t) == t # <<>> /\ \A k \in 1..Len(t) : IsDigitChar(t[k])

\* t.startswith("3")
startswith3(t) == t # <<>> /\ t[1] = "3"

RECURSIVE Rep(_, _)
Rep(c, n) == IF n = 0 THEN <<>> ELSE <<c>> \o Rep(c, n - 1)

\* ---------------------------------------------------------------- documents

\* A span of page.get_text("dict"): its text and the left and top of its bbox.
Span(t, x, y) == [text |-> t, bbox |-> <<x, y>>]

Line(spans) == [spans |-> spans]

TextBlock(lines) == [type |-> 0, lines |-> lines]

\* An image block of get_text("dict") has no "lines" key.
ImageBlock == [type |-> 1]

\* block.get("lines", [])
BlockLines(block) == IF "lines" \in DOMAIN block THEN block.lines ELSE <<>>

\* line.get("spans", [])
LineSpans(line) == IF "spans" \in DOMAIN line THEN line.spans ELSE <<>>

\* A page, as page.get_text("dict") shows it.
Page(blocks) == [blocks |-> blocks]

\* Texts of the single-span documents: optional blanks around a first
\* character followed by a run of one character.
SingleTexts ==
    { Rep(" ", l) \o <<f>> \o Rep(c, n) \o Rep(" ", r) :
        l \in 0..1, r \in 0..1, f \in Chars \ {" "}, c \in Chars,
        n \in 0..(MaxTextLen - 1) }
    \cup {<<>>, <<" ">>}

\* Left edges around the threshold of the left margin.
XValues == {199, 200, 201}

SingleSpanDocs ==
    { <<Page(<<TextBlock(<<Line(<<Span(t, x, 300)>>)>>)>>)>> :
        t \in SingleTexts, x \in XValues }

\* Spans of the multi-span pages.
sA == Span(<<"3", "1", "1", "1", "1", "1", "1">>, 50, 100)
sB == Span(<<"3", "1", "1", "1", "1", "1", "1">>, 50, 120)
sC == Span(<<" ", "3", "1", "1", "1", "1", "1", "1", "1">>, 50, 400)
sD == Span(<<"3", "1", "1", "1", "1", "1", "1", "1", "1">>, 199, 600)
sN == Span(<<"1", "1", "1", "1", "1", "1", "1">>, 50, 250)
sX == Span(<<"3", "1", "1", "1", "1", "1", "1">>, 200, 300)
sS == Span(<<"3", "sup2", "sup2", "sup2", "sup2", "sup2", "sup2">>, 50, 500)

\* Page layouts: no text, two item lines 20pt apart carrying the same
\* number, two text blocks around an image mixing items with other text,
\* three items on one line, an item written with superscript digits, and two items whose
\* extraction order is bottom first.
CatalogPages ==
    { Page(<<>>),
      Page(<<TextBlock(<<Line(<<sA>>), Line(<<sB>>)>>)>>),
      Page(<<TextBlock(<<Line(<<sN, sC>>)>>), ImageBlock,
             TextBlock(<<Line(<<sX>>), Line(<<sD>>)>>)>>),
      Page(<<TextBlock(<<Line(<<sA, sC, sD>>)>>)>>),
      Page(<<TextBlock(<<Line(<<sS>>)>>)>>),
      Page(<<TextBlock(<<Line(<<sD>>)>>), TextBlock(<<Line(<<sA>>)>>)>>) }

MultiPageDocs == UNION { [1..n -> CatalogPages] : n \in 1..MaxPages }

\* The PDFs a user may upload.
Docs == SingleSpanDocs \cup MultiPageDocs

\* ------------------------------------------------------------ item locator

left_margin_x == 200
min_item_len == 7
max_item_len == 9

\* The test of lines 16-21 on a span.
Qualifies(span) ==
    LET t == strip(span.text) IN
        /\ isdigit(t)
        /\ startswith3(t)
        /\ min_item_len <= Len(t) /\ Len(t) <= max_item_len
        /\ span.bbox[1] < left_margin_x

\* coords.append((i, t, span["bbox"][0], span["bbox"][1]))
Coord(i, span) == <<i, strip(span.text), span.bbox[1], span.bbox[2]>>

\* ScanSpans keeping one entry per item number.
RECURSIVE ScanSpans_Dedup(_, _, _)
ScanSpans_Dedup(i, spans, coords) ==
    IF spans = <<>> THEN coords
    ELSE ScanSpans_Dedup(i, Tail(spans),
            IF Qualifies(Head(spans))
               /\ \A k \in 1..Len(coords) : coords[k][2] # strip(Head(spans).text)
            THEN Append(coords, Coord(i, Head(spans)))
            ELSE coords)

\* for span in line.get("spans", [])
RECURSIVE ScanSpans(_, _, _)
ScanSpans(i, spans, coords) ==
    IF spans = <<>> THEN coords
    ELSE ScanSpans(i, Tail(spans),
                   IF Qualifies(Head(spans))
                   THEN Append(coords, Coord(i, Head(spans)))
                   ELSE coords)

\* for line in block.get("lines", [])
RECURSIVE ScanLines(_, _, _)
ScanLines(i, lines, coords) ==
    IF lines = <<>> THEN coords
    ELSE ScanLines(i, Tail(lines), ScanSpans(i, LineSpans(Head(lines)), coords))

\* for block in page.get_text("dict")["blocks"]
RECURSIVE ScanBlocks(_, _, _)
ScanBlocks(i, blocks, coords) ==
    IF blocks = <<>> THEN coords
    ELSE ScanBlocks(i, Tail(blocks), ScanLines(i, BlockLines(Head(blocks)), coords))

\* for i, page in enumerate(pdf): page k of the sequence has index k - 1
RECURSIVE ScanPages(_, _, _)
ScanPages(pdf, k, coords) ==
    IF k > Len(pdf) THEN coords
    ELSE ScanPages(pdf, k + 1, ScanBlocks(k - 1, pdf[k].blocks, coords))

find_item_coordinates(pdf) == ScanPages(pdf, 1, <<>>)

\* ------------------------------------------------------- symbology encoder

\* code128.Code128(value, barHeight, barWidth, humanReadable): the arguments
\* the drawn barcode carries.  barWidth is kept in tenths of a point.
Code128(value, barHeight, barWidthTenths, humanReadable) ==
    [value |-> value, barHeight |-> barHeight,
     barWidthTenths |-> barWidthTenths, humanReadable |-> humanReadable]

\* The encoder is a library.  Code 128 encodes every ASCII string; whether
\* the library raises on a character outside its set is left open
\* (rejects), so both outcomes are explored.
EncoderRaises(value, rejects) ==
    rejects /\ \E k \in 1..Len(value) : ~IsAsciiChar(value[k])

\* ------------------------------------------------ compositor: annotated mode

barcode_width_pt == 300
barcode_height_pt == 80
right_edge == 612
margin == 30
top_offset == 25
bg_margin == 15
text_room == 30
bar_width_tenths == 15

Rect(x0, y0, x1, y1) == [left |-> x0, top |-> y0, right |-> x1, bottom |-> y1]

\* PlacementBox with a clamp that moves left and leaves right where it was.
PlacementBox_ClampLeftOnly(w, y) ==
    LET left == w - barcode_width_pt - margin
        right == w - margin
        top == y - top_offset
        bottom == top + barcode_height_pt
    IN  Rect(IF left < 0 THEN 0 ELSE left, top, right, bottom)

\* Lines 38-45 for a page of width w: the box the barcode is shown in.
PlacementBox(w, y) ==
    LET left == w - barcode_width_pt - margin
        right == w - margin
        top == y - top_offset
        bottom == top + barcode_height_pt
    IN  IF left < 0
        THEN Rect(0, top, barcode_width_pt, bottom)
        ELSE Rect(left, top, right, bottom)

\* BgRect with the padding left off the top and the bottom.
BgRect_SidesOnly(box) ==
    Rect(box.left - bg_margin, box.top, box.right + bg_margin, box.bottom)

\* Lines 47-48: the white rectangle drawn under the barcode.
BgRect(box) ==
    Rect(box.left - bg_margin, box.top - bg_margin,
         box.right + bg_margin, box.bottom + bg_margin)

\* OverlayBarcode with the text under the bars switched off.
OverlayBarcode_NoText(item) ==
    Code128(item, barcode_height_pt - text_room, bar_width_tenths, FALSE)

\* Lines 54-59: the barcode of the overlay.
OverlayBarcode(item) ==
    Code128(item, barcode_height_pt - text_room, bar_width_tenths, TRUE)

\* DrawRectOp with the rectangle always drawn on the first page.
DrawRectOp_FirstPage(page_index, rect) ==
    [op |-> "draw_rect", page |-> 0, rect |-> rect, fill |-> "white"]

\* page.draw_rect(bg_rect, color=(1, 1, 1), fill=(1, 1, 1))
DrawRectOp(page_index, rect) ==
    [op |-> "draw_rect", page |-> page_index, rect |-> rect, fill |-> "white"]

\* page.show_pdf_page(target_rect, img_pdf, 0)
ShowPdfPageOp(page_index, rect, barcode) ==
    [op |-> "show_pdf_page", page |-> page_index, rect |-> rect,
     barcode |-> barcode]

\* The loop of lines 30-68 from item k on.  log is the sequence of drawing
\* calls made on the document so far, in the order they were made.  The
\* rectangle is drawn before the encoder runs, so a raise leaves it behind.
RECURSIVE OverlayFrom(_, _, _, _)
OverlayFrom(items, k, log, rejects) ==
    IF k > Len(items) THEN [log |-> log, raised |-> FALSE]
    ELSE LET page_index == items[k][1]
             item == items[k][2]
             box == PlacementBox(right_edge, items[k][4])
             log1 == Append(log, DrawRectOp(page_index, BgRect(box)))
         IN  IF EncoderRaises(item, rejects)
             THEN [log |-> log1, raised |-> TRUE]
             ELSE OverlayFrom(items, k + 1,
                     Append(log1, ShowPdfPageOp(page_index, box, OverlayBarcode(item))),
                     rejects)

overlay_barcodes(items, rejects) == OverlayFrom(items, 1, <<>>, rejects)

\* ------------------------------------------- compositor: standalone sheet

letter_height == 792
sheet_margin == 80
top_room == 120
new_page_below == 200
label_step == 50
barcode_drop == 70
item_step == 120

\* Lines 94-99: the barcode of the sheet.
SheetBarcode(item) ==
    Code128(item, barcode_height_pt - text_room, bar_width_tenths, TRUE)

\* c.drawString(margin, y, f"Item: {item}")
DrawStringOp(x, y, item) == [op |-> "drawString", x |-> x, y |-> y, item |-> item]

\* barcode.drawOn(c, x_pos, y_pos)
DrawOnOp(x, y, barcode) == [op |-> "drawOn", x |-> x, y |-> y, barcode |-> barcode]

\* c.save(): the page in progress is emitted when something was drawn on it.
CanvasSave(pages, cur) == IF cur = <<>> THEN pages ELSE Append(pages, cur)

\* StartsNewPage with the test made against the space one more item takes.
StartsNewPage_TooEarly(y) == y < new_page_below + label_step + item_step

\* if y < 200: a new page is started before the item is placed
StartsNewPage(y) == y < new_page_below

\* The loop of lines 83-107 from item k on: pages are the pages emitted by
\* showPage, cur the drawing calls on the page in progress, y the running
\* vertical position.
RECURSIVE SheetFrom(_, _, _, _, _, _)
SheetFrom(items, k, pages, cur, y, rejects) ==
    IF k > Len(items) THEN [pages |-> CanvasSave(pages, cur), raised |-> FALSE]
    ELSE LET item == items[k][2]
             new_page == StartsNewPage(y)
             pages1 == IF new_page THEN Append(pages, cur) ELSE pages
             cur1 == IF new_page THEN <<>> ELSE cur
             y1 == IF new_page THEN letter_height - top_room ELSE y
             cur2 == Append(cur1, DrawStringOp(sheet_margin, y1, item))
             y2 == y1 - label_step
         IN  IF EncoderRaises(item, rejects)
             THEN [pages |-> <<>>, raised |-> TRUE]
             ELSE SheetFrom(items, k + 1, pages1,
                     Append(cur2, DrawOnOp(sheet_margin, y2 - barcode_drop, SheetBarcode(item))),
                     y2 - item_step, rejects)

generate_clean_barcode_sheet(items, rejects) ==
    SheetFrom(items, 1, <<>>, <<>>, letter_height - top_room, rejects)

\* ------------------------------------------------------------ the script

VARIABLES
    uploaded_file,   \* the file of st.file_uploader: None or a document
    show_items,      \* the state of the checkbox "Show detected item numbers"
    text_setting,    \* the annotated-mode text option the user asked for with
                     \* the last click on "Annotated Picking Ticket"; the
                     \* script has no widget or parameter that receives it
    items,           \* what find_item_coordinates returned in the last run
    calls,           \* the functions the last run called, in order
    screen,          \* the elements the last run put on the page
    pdf_log,         \* the drawing calls the last run made on the document
    annotated_pdf,   \* the data of "Download Annotated PDF", or None
    clean_pdf,       \* the data of "Download Barcodes Only", or None
    raised           \* whether the last run ended in an uncaught exception

vars == <<uploaded_file, show_items, text_setting, items, calls, screen,
          pdf_log, annotated_pdf, clean_pdf, raised>>

\* What one run of the script leaves.
Outcome(its, cls, scr, log, ann, cln, exc) ==
    [items |-> its, calls |-> cls, screen |-> scr, pdf_log |-> log,
     annotated_pdf |-> ann, clean_pdf |-> cln, raised |-> exc]

\* AnnotatedColumn with the encoder's exception swallowed: what was drawn
\* before it is saved and offered.
AnnotatedColumn_Swallow(its, clicked, rejects) ==
    IF ~clicked
    THEN [calls |-> <<>>, screen |-> {"btn_annotated"}, log |-> <<>>,
          data |-> None, raised |-> FALSE]
    ELSE LET r == overlay_barcodes(its, rejects) IN
         [calls |-> <<"overlay_barcodes">>,
          screen |-> {"btn_annotated", "download_annotated"},
          log |-> r.log, data |-> Some(r.log), raised |-> FALSE]

\* Lines 140-151: the left column.
AnnotatedColumn(its, clicked, rejects) ==
    IF ~clicked
    THEN [calls |-> <<>>, screen |-> {"btn_annotated"}, log |-> <<>>,
          data |-> None, raised |-> FALSE]
    ELSE LET r == overlay_barcodes(its, rejects) IN
         IF r.raised
         THEN [calls |-> <<"overlay_barcodes">>, screen |-> {"btn_annotated"},
               log |-> r.log, data |-> None, raised |-> TRUE]
         ELSE [calls |-> <<"overlay_barcodes">>,
               screen |-> {"btn_annotated", "download_annotated"},
               log |-> r.log, data |-> Some(r.log), raised |-> FALSE]

\* Lines 153-162: the right column.
CleanColumn(its, clicked, rejects) ==
    IF ~clicked
    THEN [calls |-> <<>>, screen |-> {"btn_barcodes_only"}, data |-> None,
          raised |-> FALSE]
    ELSE LET r == generate_clean_barcode_sheet(its, rejects) IN
         IF r.raised
         THEN [calls |-> <<"generate_clean_barcode_sheet">>,
               screen |-> {"btn_barcodes_only"}, data |-> None, raised |-> TRUE]
         ELSE [calls |-> <<"generate_clean_barcode_sheet">>,
               screen |-> {"btn_barcodes_only", "download_barcodes_only"},
               data |-> Some(r.pages), raised |-> FALSE]

\* ItemsBranch without the test for an empty list: the columns are drawn
\* whatever the locator returned.
ItemsBranch_NoEmptyTest(its, checked, annotated_clicked, clean_clicked, rejects) ==
    LET c1 == AnnotatedColumn(its, annotated_clicked, rejects)
        c2 == CleanColumn(its, clean_clicked, rejects)
    IN  Outcome(its, <<"find_item_coordinates">> \o c1.calls \o c2.calls,
                {"success", "checkbox"} \cup c1.screen \cup c2.screen, c1.log,
                c1.data, c2.data, c1.raised \/ c2.raised)

\* Lines 131-162: the branch on the located items.
ItemsBranch(its, checked, annotated_clicked, clean_clicked, rejects) ==
    IF its = <<>>
    THEN Outcome(its, <<"find_item_coordinates">>, {"error_no_items"},
                 <<>>, None, None, FALSE)
    ELSE LET head == {"success", "checkbox"}
                     \cup (IF checked THEN {"items_list"} ELSE {})
             c1 == AnnotatedColumn(its, annotated_clicked, rejects)
         IN  IF c1.raised
             THEN Outcome(its, <<"find_item_coordinates">> \o c1.calls,
                          head \cup c1.screen, c1.log, None, None, TRUE)
             ELSE LET c2 == CleanColumn(its, clean_clicked, rejects) IN
                  Outcome(its, <<"find_item_coordinates">> \o c1.calls \o c2.calls,
                          head \cup c1.screen \cup c2.screen, c1.log,
                          c1.data, c2.data, c2.raised)

\* Lines 124-164: one run of the script.
Script(file, checked, annotated_clicked, clean_clicked, rejects) ==
    IF file = None
    THEN Outcome(<<>>, <<>>, {}, <<>>, None, None, FALSE)
    ELSE ItemsBranch(find_item_coordinates(file[1]), checked,
                     annotated_clicked, clean_clicked, rejects)

\* The variables after a run that left o.  A widget that is not drawn
\* loses its state.
Leaves(o, checked) ==
    /\ items' = o.items
    /\ calls' = o.calls
    /\ screen' = o.screen
    /\ pdf_log' = o.pdf_log
    /\ annotated_pdf' = o.annotated_pdf
    /\ clean_pdf' = o.clean_pdf
    /\ raised' = o.raised
    /\ show_items' = (checked /\ "checkbox" \in o.screen)

Init ==
    /\ uploaded_file = None
    /\ show_items = FALSE
    /\ text_setting = TRUE
    /\ items = <<>>
    /\ calls = <<>>
    /\ screen = {}
    /\ pdf_log = <<>>
    /\ annotated_pdf = None
    /\ clean_pdf = None
    /\ raised = FALSE

\* The user uploads a PDF into the empty uploader.  (Dropping a file on a
\* full uploader is RemoveFile followed by Upload: the states reached are
\* the same.)
Upload ==
    /\ uploaded_file = None
    /\ \E doc \in Docs :
        /\ uploaded_file' = Some(doc)
        /\ Leaves(Script(Some(doc), show_items, FALSE, FALSE, FALSE), show_items)
        /\ UNCHANGED text_setting

\* The user removes the uploaded file.
RemoveFile ==
    /\ uploaded_file # None
    /\ uploaded_file' = None
    /\ Leaves(Script(None, show_items, FALSE, FALSE, FALSE), show_items)
    /\ UNCHANGED text_setting

\* The user ticks or unticks "Show detected item numbers".
ToggleShowItems ==
    /\ "checkbox" \in screen
    /\ Leaves(Script(uploaded_file, ~show_items, FALSE, FALSE, FALSE), ~show_items)
    /\ UNCHANGED <<uploaded_file, text_setting>>

\* The user clicks "Annotated Picking Ticket", wanting the text under the
\* bars on or off.
ClickAnnotated ==
    /\ "btn_annotated" \in screen
    /\ \E wanted \in BOOLEAN, rejects \in BOOLEAN :
        /\ text_setting' = wanted
        /\ Leaves(Script(uploaded_file, show_items, TRUE, FALSE, rejects), show_items)
    /\ UNCHANGED uploaded_file

\* The user clicks "Barcodes Only (No Ticket)".
ClickBarcodesOnly ==
    /\ "btn_barcodes_only" \in screen
    /\ \E rejects \in BOOLEAN :
        Leaves(Script(uploaded_file, show_items, FALSE, TRUE, rejects), show_items)
    /\ UNCHANGED <<uploaded_file, text_setting>>

Next ==
    \/ Upload
    \/ RemoveFile
    \/ ToggleShowItems
    \/ ClickAnnotated
    \/ ClickBarcodesOnly

Spec == Init /\ [][Next]_vars

\* ------------------------------------------------ vocabulary of the claims

\* The document of the last run.
Pdf == uploaded_file[1]

\* The places <<page, block, line, span>> of the spans of a document.
Positions(pdf) ==
    UNION { UNION { UNION {
        { <<p, b, l, s>> :
            s \in 1..Len(LineSpans(BlockLines(pdf[p].blocks[b])[l])) } :
        l \in 1..Len(BlockLines(pdf[p].blocks[b])) } :
        b \in 1..Len(pdf[p].blocks) } :
        p \in 1..Len(pdf) }

SpanAt(pdf, pos) == LineSpans(BlockLines(pdf[pos[1]].blocks[pos[2]])[pos[3]])[pos[4]]

\* Traversal order: page, then block, then line, then span.
Before(a, b) ==
    \E i \in 1..4 : a[i] < b[i] /\ \A j \in 1..(i - 1) : a[j] = b[j]

\* The place of pos among the places Q, counted from 1 in traversal order.
Rank(pos, Q) == Cardinality({ q \in Q : Before(q, pos) }) + 1

\* The list is the places Q in traversal order, each recorded as
\* (page index, trimmed text, x, y).
ListsExactly(its, pdf, Q) ==
    /\ Len(its) = Cardinality(Q)
    /\ \A pos \in Q :
         its[Rank(pos, Q)] =
           <<pos[1] - 1, strip(SpanAt(pdf, pos).text),
             SpanAt(pdf, pos).bbox[1], SpanAt(pdf, pos).bbox[2]>>

\* Qualification as the specification words it: decimal digits only, first
\* character '3', 7 to 9 characters, x below 200.
SpecQualifies(span) ==
    LET t == strip(span.text) IN
        /\ t # <<>>
        /\ \A k \in 1..Len(t) : t[k] \in AsciiDigits
        /\ t[1] = "3"
        /\ Len(t) \in 7..9
        /\ span.bbox[1] < 200

Located == uploaded_file # None

\* ----------------------------------------------------------------- claims

\* C1: for every span of every page, find_item_coordinates records the span
\* if and only if its trimmed text consists of decimal digits only, starts
\* with '3', is 7 to 9 long and its left edge is below 200; what is recorded
\* is the trimmed text.
C1_QualifiesIffSpec ==
    Located =>
        ListsExactly(items, Pdf, { pos \in Positions(Pdf) : SpecQualifies(SpanAt(Pdf, pos)) })

\* C2: the list find_item_coordinates returns is exactly the subsequence of
\* the spans its test accepts, in page order and within a page in traversal
\* order (block, line, span): never sorted, nothing merged, duplicates kept,
\* as long as the number of accepted spans, page indices non-decreasing.
C2_ListIsSubsequence ==
    Located =>
        /\ ListsExactly(items, Pdf, { pos \in Positions(Pdf) : Qualifies(SpanAt(Pdf, pos)) })
        /\ \A k \in 1..(Len(items) - 1) : items[k][1] <= items[k + 1][1]

\* A run located two entries of the same number, two entries of one page
\* in descending y, and entries on more than one page.
C2_Witness ==
    /\ Located
    /\ \E j, k \in 1..Len(items) : j < k /\ items[j][2] = items[k][2]
    /\ \E k \in 1..(Len(items) - 1) :
         items[k][1] = items[k + 1][1] /\ items[k][4] > items[k + 1][4]
    /\ \E j, k \in 1..Len(items) : items[j][1] # items[k][1]

\* overlay_barcodes returned in the last run.
OverlayReturned == annotated_pdf # None

\* generate_clean_barcode_sheet returned in the last run.
SheetReturned == clean_pdf # None

\* The drawing calls of one kind made on page p.
OpsOn(log, kind, p) == { j \in 1..Len(log) : log[j].op = kind /\ log[j].page = p }

ItemsOn(its, p) == { k \in 1..Len(its) : its[k][1] = p }

\* C3: when overlay_barcodes returns, each page p carries exactly as many
\* background rectangles and as many embedded barcodes as there are items
\* whose pageIndex is p, and pages holding no item carry nothing.
C3_OnePairPerItem ==
    OverlayReturned =>
        /\ \A j \in 1..Len(pdf_log) : pdf_log[j].page \in 0..(Len(Pdf) - 1)
        /\ \A p \in 0..(Len(Pdf) - 1) :
             /\ Cardinality(OpsOn(pdf_log, "draw_rect", p)) = Cardinality(ItemsOn(items, p))
             /\ Cardinality(OpsOn(pdf_log, "show_pdf_page", p)) = Cardinality(ItemsOn(items, p))
             /\ Cardinality({ j \in 1..Len(pdf_log) : pdf_log[j].page = p })
                  = 2 * Cardinality(ItemsOn(items, p))

\* overlay_barcodes returned on a document with a page holding no item,
\* a page holding exactly one and a page holding several.
C3_Witness ==
    /\ OverlayReturned
    /\ \E p \in 0..(Len(Pdf) - 1) :
         ItemsOn(items, p) = {} /\ OpsOn(pdf_log, "draw_rect", p) = {}
    /\ \E p \in 0..(Len(Pdf) - 1) :
         Cardinality(ItemsOn(items, p)) = 1
         /\ Cardinality(OpsOn(pdf_log, "show_pdf_page", p)) = 1
    /\ \E p \in 0..(Len(Pdf) - 1) : Cardinality(ItemsOn(items, p)) > 1

\* The item a drawing call of the overlay was made for: calls come in
\* pairs, rectangle then barcode, one pair per item in list order.
ItemOf(j) == items[(j + 1) \div 2]

\* C4: for every item with vertical coordinate y the placement box has
\* top = y - 25 and bottom = y + 55, height 80 and width 300, and the white
\* rectangle is that box grown by 15pt on each of its four sides.
C4_BoxFromY ==
    \A j \in 1..Len(pdf_log) :
        LET y == ItemOf(j)[4]
            r == pdf_log[j].rect
        IN  /\ pdf_log[j].op = "show_pdf_page" =>
                 /\ r.top = y - 25
                 /\ r.bottom = y + 55
                 /\ r.bottom - r.top = 80
                 /\ r.right - r.left = 300
                 /\ pdf_log[j - 1].op = "draw_rect"
                 /\ pdf_log[j - 1].rect =
                      Rect(r.left - 15, r.top - 15, r.right + 15, r.bottom + 15)
            /\ pdf_log[j].op = "draw_rect" =>
                 /\ r.top = y - 25 - 15
                 /\ r.bottom = y + 55 + 15
                 /\ r.right - r.left = 300 + 15 + 15

\* The overlay was drawn for an item at y = 300: its box spans 275 to 355.
C4_Witness ==
    /\ OverlayReturned
    /\ \E j \in 1..Len(pdf_log) :
         /\ pdf_log[j].op = "show_pdf_page"
         /\ ItemOf(j)[4] = 300
         /\ pdf_log[j].rect.top = 275
         /\ pdf_log[j].rect.bottom = 355

\* Page widths under which the placement is recomputed.
ModifiedWidths == 0..right_edge

\* C5: every placement box overlay_barcodes computes has left >= 0; with
\* the fixed constants left is 282 and right is 582 whatever the item's x
\* and y, so the clamp is idle; under a modified page width the clamp acts
\* exactly when the computed left is negative, and then left is 0 and right
\* is 300: the width stays 300.
C5_LeftClamped ==
    /\ \A j \in 1..Len(pdf_log) :
         pdf_log[j].op = "show_pdf_page" =>
             /\ pdf_log[j].rect.left = 282
             /\ pdf_log[j].rect.right = 582
             /\ pdf_log[j].rect.left >= 0
    /\ \A y \in { ItemOf(j)[4] : j \in 1..Len(pdf_log) } : \A w \in ModifiedWidths :
         LET b == PlacementBox(w, y)
             nominal == w - 300 - 30
         IN  /\ b.left >= 0
             /\ b.right - b.left = 300
             /\ nominal < 0 => b.left = 0 /\ b.right = 300
             /\ nominal >= 0 => b.left = nominal /\ b.right = w - 30

\* The overlay placed two items of different x and different y in the same
\* columns 282 to 582.
C5_Witness ==
    /\ OverlayReturned
    /\ \E i, j \in 1..Len(pdf_log) :
         /\ pdf_log[i].op = "show_pdf_page" /\ pdf_log[j].op = "show_pdf_page"
         /\ ItemOf(i)[3] # ItemOf(j)[3]
         /\ ItemOf(i)[4] # ItemOf(j)[4]
         /\ pdf_log[i].rect.left = 282 /\ pdf_log[j].rect.left = 282
         /\ pdf_log[i].rect.right = 582 /\ pdf_log[j].rect.right = 582

\* The sheet of the last run: its pages, each the drawing calls on it.
Sheet == clean_pdf[1]

\* Pages needed for n items at 3 items a page: ceil(n / 3).
SheetPagesFor(n) == (n + 2) \div 3

\* C6: for N items generate_clean_barcode_sheet produces ceil(N / 3) pages:
\* a new page starts exactly when the running y is below 200, which with
\* the start at 672 and 170pt an item is after every third item; the items
\* appear in list order, none skipped, each with its label and its barcode
\* on the same page.
C6_SheetPages ==
    SheetReturned =>
        /\ Len(Sheet) = SheetPagesFor(Len(items))
        /\ \A k \in 1..Len(items) :
             LET pg == ((k - 1) \div 3) + 1
                 slot == (k - 1) % 3
                 label == Sheet[pg][2 * slot + 1]
                 bars == Sheet[pg][2 * slot + 2]
             IN  /\ label.op = "drawString"
                 /\ label.item = items[k][2]
                 /\ label.y = 672 - 170 * slot
                 /\ label.y >= 200
                 /\ bars.op = "drawOn"
                 /\ bars.barcode.value = items[k][2]
                 /\ bars.y = label.y - 120
        /\ \A pg \in 1..Len(Sheet) :
             Len(Sheet[pg]) =
                 2 * (IF pg < Len(Sheet) THEN 3 ELSE Len(items) - 3 * (pg - 1))

\* A sheet of seven items was produced: three pages, the seventh item alone
\* on the last.
C6_Witness ==
    /\ SheetReturned
    /\ Len(items) = 7
    /\ Len(Sheet) = 3
    /\ Len(Sheet[3]) = 2

Downloads == {"download_annotated", "download_barcodes_only"}

Calls == { calls[k] : k \in 1..Len(calls) }

\* C7: in a run where the locator returns an empty list neither
\* overlay_barcodes nor generate_clean_barcode_sheet is called and no
\* download is offered; a download is offered only in a run where the
\* locator returned a non-empty list and the matching compose call ran.
C7_NoItemsNoCompose ==
    /\ items = <<>> =>
         /\ "overlay_barcodes" \notin Calls
         /\ "generate_clean_barcode_sheet" \notin Calls
         /\ screen \cap Downloads = {}
         /\ annotated_pdf = None /\ clean_pdf = None
         /\ pdf_log = <<>>
    /\ "download_annotated" \in screen =>
         items # <<>> /\ calls = <<"find_item_coordinates", "overlay_barcodes">>
    /\ "download_barcodes_only" \in screen =>
         items # <<>> /\ calls = <<"find_item_coordinates", "generate_clean_barcode_sheet">>

\* The locator ran on an uploaded document holding spans and returned the
\* empty list: the run reported it and offered no button.
C7_Witness ==
    /\ Located
    /\ Positions(Pdf) # {}
    /\ calls = <<"find_item_coordinates">>
    /\ items = <<>>
    /\ screen = {"error_no_items"}

\* C8: a compose operation has no partial success: when the encoder fails
\* on an item the run ends in the exception and offers no download, so an
\* annotated PDF on offer holds the rectangle and the barcode of every
\* located item and a sheet on offer holds the label and the barcode of
\* every located item.
C8_NoPartialArtifact ==
    /\ raised => screen \cap Downloads = {} /\ annotated_pdf = None /\ clean_pdf = None
    /\ "download_annotated" \in screen <=> annotated_pdf # None
    /\ "download_barcodes_only" \in screen <=> clean_pdf # None
    /\ annotated_pdf # None =>
         /\ Len(annotated_pdf[1]) = 2 * Len(items)
         /\ \A k \in 1..Len(items) :
              /\ annotated_pdf[1][2 * k - 1].op = "draw_rect"
              /\ annotated_pdf[1][2 * k].op = "show_pdf_page"
              /\ annotated_pdf[1][2 * k].barcode.value = items[k][2]
              /\ annotated_pdf[1][2 * k].page = items[k][1]
    /\ clean_pdf # None =>
         \A k \in 1..Len(items) :
             \E pg \in 1..Len(Sheet) : \E j \in 1..(Len(Sheet[pg]) - 1) :
                 /\ Sheet[pg][j].op = "drawString" /\ Sheet[pg][j].item = items[k][2]
                 /\ Sheet[pg][j + 1].op = "drawOn"
                 /\ Sheet[pg][j + 1].barcode.value = items[k][2]

\* The encoder failed in overlay_barcodes after an earlier item had been
\* overlaid: the run ended in the exception with nothing to download.
C8_Witness ==
    /\ raised
    /\ "overlay_barcodes" \in Calls
    /\ Len(items) > 1
    /\ Len(pdf_log) > 2
    /\ Len(pdf_log) < 2 * Len(items)
    /\ screen \cap Downloads = {}

\* The barcodes the overlay drew and the barcodes of the sheet.
OverlayBarcodes ==
    { pdf_log[j].barcode : j \in { i \in 1..Len(pdf_log) : pdf_log[i].op = "show_pdf_page" } }

SheetBarcodes ==
    IF SheetReturned
    THEN UNION { { Sheet[pg][j].barcode :
                     j \in { i \in 1..Len(Sheet[pg]) : Sheet[pg][i].op = "drawOn" } } :
                 pg \in 1..Len(Sheet) }
    ELSE {}

\* C9, as claimed: the overlay draws the text under the bars when the
\* annotated-mode setting is on and leaves it out when the setting is off;
\* the sheet draws it whatever the setting.
C9_TextFollowsSetting ==
    /\ \A b \in OverlayBarcodes : b.humanReadable = text_setting
    /\ \A b \in SheetBarcodes : b.humanReadable

\* C9, amended: overlay_barcodes has no text setting; every overlay
\* barcode is drawn with humanReadable on and barWidth 1.5 whatever the
\* user asked for, and so is every barcode of the sheet.
C9_TextAlwaysDrawn ==
    /\ \A b \in OverlayBarcodes : b.humanReadable /\ b.barWidthTenths = 15
    /\ \A b \in SheetBarcodes : b.humanReadable /\ b.barWidthTenths = 15

\* The user asked for no text and the overlay was drawn with text.
C9_Witness ==
    /\ OverlayReturned
    /\ ~text_setting
    /\ \E b \in OverlayBarcodes : b.humanReadable

\* Two rectangles share a region of positive area.
Intersects(a, b) ==
    /\ a.left < b.right /\ b.left < a.right
    /\ a.top < b.bottom /\ b.top < a.bottom

\* C10: after overlay_barcodes every barcode is intact: the white
\* rectangle drawn for a later item never intersects the placement box of
\* an earlier item of the same page.
C10_BarcodesIntact ==
    \A i, j \in 1..Len(pdf_log) :
        (/\ i < j
         /\ pdf_log[i].op = "show_pdf_page"
         /\ pdf_log[j].op = "draw_rect"
         /\ pdf_log[i].page = pdf_log[j].page)
        => ~Intersects(pdf_log[j].rect, pdf_log[i].rect)

====
